---- MODULE Spec2Model ----
(***************************************************************************)
(* A model of oztags.py: the incremental lexer coroutine (_lex), the       *)
(* parser coroutine (_parse), the line feeder (feed), the main loop that   *)
(* collects, sorts and prints the symbols, and the Symbol class.           *)
(*                                                                         *)
(* Text is modelled as a sequence of one-character strings, so that the    *)
(* prefix matching of the lexer's regular expressions, the slicing of the  *)
(* buffer and the formatting of the tags line are computed character by    *)
(* character.  Python's None is the empty sequence for a text and 0 for a  *)
(* reference to a Symbol.                                                  *)
(***************************************************************************)
EXTENDS Integers, Sequences, FiniteSets, TLC

(***************************************************************************)
(* Character classes used by the regular expressions.                      *)
(***************************************************************************)
Lower == {"a","b","c","d","e","f","g","h","i","j","k","l","m",
          "n","o","p","q","r","s","t","u","v","w","x","y","z"}

Upper == {"A","B","C","D","E","F","G","H","I","J","K","L","M",
          "N","O","P","Q","R","S","T","U","V","W","X","Y","Z"}

Digit == {"0","1","2","3","4","5","6","7","8","9"}

HexDigit == Digit \cup {"a","b","c","d","e","f","A","B","C","D","E","F"}

\* the character U+0060 (a string literal cannot hold it)
Backquote == "U+0060"

\* \w
Word == Lower \cup Upper \cup Digit \cup {"_"}

\* the characters excluded by the class [^a-zA-Z'"%/&{!$] (and U+0060)
NotPunct ==
  Lower \cup Upper \cup {"'", Backquote, "\"", "%", "/", "&", "{", "!", "$"}

\* the printable ASCII characters in code point order, from 32 (space)
Ascii ==
  <<" ","!","\"","#","$","%","&","'","(",")","*","+",",","-",".","/",
    "0","1","2","3","4","5","6","7","8","9",":",";","<","=",">","?",
    "@","A","B","C","D","E","F","G","H","I","J","K","L","M","N","O",
    "P","Q","R","S","T","U","V","W","X","Y","Z","[","\\","]","^","_",
    Backquote,"a","b","c","d","e","f","g","h","i","j","k","l","m","n","o",
    "p","q","r","s","t","u","v","w","x","y","z","{","|","}","~">>

\* the code point of a character (the order Python compares str by)
Ord(c) ==
  IF c = "\t" THEN 9
  ELSE IF c = "\n" THEN 10
  ELSE 31 + (CHOOSE i \in 1..Len(Ascii) : Ascii[i] = c)

(***************************************************************************)
(* Token types: (IGNORE, CLASS, ..., VAR) = range(11)                      *)
(***************************************************************************)
IGNORE == 0
CLASS == 1
PROC == 2
METH == 3
END == 4
BRACE == 5
EXCL == 6
DOLLAR == 7
SCOPE == 8
ATOM == 9
VAR == 10

(***************************************************************************)
(* Prefix matchers.  Each gives m.end() of pattern.match(buffer), or 0     *)
(* when the pattern does not match (no pattern matches the empty text).    *)
(***************************************************************************)
StartsWith(b, w) == Len(b) >= Len(w) /\ SubSeq(b, 1, Len(w)) = w

\* <word>\b : the keyword, then a word boundary (end of text or a non-\w)
Keyword(b, w) ==
  IF StartsWith(b, w) /\ (Len(b) = Len(w) \/ b[Len(w) + 1] \notin Word)
  THEN Len(w) ELSE 0

\* the first alternative of an alternation that matches
RECURSIVE FirstKeyword(_, _)
FirstKeyword(b, ws) ==
  IF ws = <<>> THEN 0
  ELSE IF Keyword(b, Head(ws)) > 0 THEN Keyword(b, Head(ws))
  ELSE FirstKeyword(b, Tail(ws))

\* \w* from position i: the position of the last character of the run
RECURSIVE WordRun(_, _)
WordRun(b, i) ==
  IF i <= Len(b) /\ b[i] \in Word THEN WordRun(b, i + 1) ELSE i - 1

\* (?:[^\\q]|\\.)*q from position i, q being the quote character
RECURSIVE QuoteScan(_, _, _)
QuoteScan(b, q, i) ==
  IF i > Len(b) THEN 0
  ELSE IF b[i] = q THEN i
  ELSE IF b[i] = "\\"
       THEN IF i + 1 <= Len(b) /\ b[i + 1] # "\n"
            THEN QuoteScan(b, q, i + 2) ELSE 0
  ELSE QuoteScan(b, q, i + 1)

\* [a-z]\w*|'(?:[^\\']|\\.)*'   and the same with [A-Z] and U+0060
Identifier(b, first, q) ==
  IF b = <<>> THEN 0
  ELSE IF b[1] \in first THEN WordRun(b, 2)
  ELSE IF b[1] = q THEN QuoteScan(b, q, 2)
  ELSE 0

\* (?:[^*]|\*[^/])*\*/ from position i
RECURSIVE CommentScan(_, _)
CommentScan(b, i) ==
  IF i > Len(b) THEN 0
  ELSE IF b[i] # "*" THEN CommentScan(b, i + 1)
  ELSE IF i + 1 > Len(b) THEN 0
  ELSE IF b[i + 1] = "/" THEN i + 1
  ELSE CommentScan(b, i + 2)

\* /\*(?:[^*]|\*[^/])*\*/
BlockComment(b) ==
  IF StartsWith(b, <<"/", "*">>) THEN CommentScan(b, 3) ELSE 0

\* .* from position i: the position of the last character of the run
RECURSIVE DotRun(_, _)
DotRun(b, i) ==
  IF i <= Len(b) /\ b[i] # "\n" THEN DotRun(b, i + 1) ELSE i - 1

\* %.*
LineComment(b) ==
  IF b # <<>> /\ b[1] = "%" THEN DotRun(b, 2) ELSE 0

\* &(?:[^\\]|\\(?:[xX][0-9a-fA-F]{2}|[^xX]))
CharLiteral(b) ==
  IF Len(b) < 2 \/ b[1] # "&" THEN 0
  ELSE IF b[2] # "\\" THEN 2
  ELSE IF Len(b) < 3 THEN 0
  ELSE IF b[3] \notin {"x", "X"} THEN 3
  ELSE IF Len(b) >= 5 /\ b[4] \in HexDigit /\ b[5] \in HexDigit THEN 5
  ELSE 0

\* the run [^a-zA-Z'"%/&{!$]+ (U+0060 excluded too) from position i: the position of the last character
RECURSIVE PunctRun(_, _)
PunctRun(b, i) ==
  IF i <= Len(b) /\ b[i] \notin NotPunct THEN PunctRun(b, i + 1) ELSE i - 1

\* /(?!\*) or the run above
Filler(b) ==
  IF b = <<>> THEN 0
  ELSE IF b[1] = "/" THEN (IF Len(b) >= 2 /\ b[2] = "*" THEN 0 ELSE 1)
  ELSE PunctRun(b, 1)

\* \{   \$
Single(b, c) == IF b # <<>> /\ b[1] = c THEN 1 ELSE 0

\* !(?!!)
Exclamation(b) ==
  IF b # <<>> /\ b[1] = "!" /\ (Len(b) = 1 \/ b[2] # "!") THEN 1 ELSE 0

ScopeKeywords ==
  << <<"l","o","c","a","l">>, <<"i","f">>, <<"c","a","s","e">>,
     <<"l","o","c","k">>, <<"t","h","r","e","a","d">>, <<"t","r","y">>,
     <<"r","a","i","s","e">>,
     <<"n","o","t">>, <<"c","o","n","d">>, <<"o","r">>, <<"d","i","s">>,
     <<"c","h","o","i","c","e">>,
     <<"f","u","n","c","t","o","r">>, <<"f","o","r">> >>

\* the list of (pattern, token_type), each pattern applied to the buffer b:
\* << match length, token_type >> in priority order
LEXER_PATTERNS(b) ==
  << <<Keyword(b, <<"c","l","a","s","s">>), CLASS>>,
     <<FirstKeyword(b, << <<"f","u","n">>, <<"p","r","o","c">> >>), PROC>>,
     <<Keyword(b, <<"m","e","t","h">>), METH>>,
     <<Keyword(b, <<"e","n","d">>), END>>,
     <<Single(b, "{"), BRACE>>,
     <<Exclamation(b), EXCL>>,
     <<Single(b, "$"), DOLLAR>>,
     <<FirstKeyword(b, ScopeKeywords), SCOPE>>,
     <<Identifier(b, Lower, "'"), ATOM>>,
     <<Identifier(b, Upper, Backquote), VAR>>,
     <<BlockComment(b), IGNORE>>,
     <<LineComment(b), IGNORE>>,
     <<CharLiteral(b), IGNORE>>,
     <<Filler(b), IGNORE>> >>

\* the first pattern that matches (the for loop with break), 0 if none does
RECURSIVE FirstMatch(_, _)
FirstMatch(ps, i) ==
  IF i > Len(ps) THEN 0
  ELSE IF ps[i][1] > 0 THEN i
  ELSE FirstMatch(ps, i + 1)

(***************************************************************************)
(* class Symbol.  The Symbol objects live in a heap, a sequence of records *)
(* indexed by reference; parent is a reference, 0 for None.                *)
(***************************************************************************)
None == 0

NoText == <<>>

\* Symbol.__init__ with filename and line stored in each other's place
Symbol_LineFileSwapped(name, filename, line, kind, lineno, parent) ==
  [name |-> name, filename |-> line, line |-> filename, lineno |-> lineno,
   kind |-> kind, parent |-> parent]

Symbol(name, filename, line, kind, lineno, parent) ==
  [name |-> name, filename |-> filename, line |-> line, lineno |-> lineno,
   kind |-> kind, parent |-> parent]

\* KIND_MAP with the private method's letter in upper case
KIND_MAP_UpperPrivate(k) ==
  CASE k = <<"f">> -> <<"f">>
    [] k = <<"c">> -> <<"c">>
    [] k = <<"m">> -> <<"m","\t","a","c","c","e","s","s",":","p","u","b","l","i","c">>
    [] k = <<"M">> -> <<"M","\t","a","c","c","e","s","s",":","p","r","i","v","a","t","e">>

KIND_MAP(k) ==
  CASE k = <<"f">> -> <<"f">>
    [] k = <<"c">> -> <<"c">>
    [] k = <<"m">> -> <<"m","\t","a","c","c","e","s","s",":","p","u","b","l","i","c">>
    [] k = <<"M">> -> <<"m","\t","a","c","c","e","s","s",":","p","r","i","v","a","t","e">>

SCOPE_MAP(k) ==
  CASE k = <<"f">> -> <<"p","r","o","c","e","d","u","r","e">>
    [] k = <<"c">> -> <<"c","l","a","s","s">>
    [] k = <<"m">> -> <<"m","e","t","h","o","d">>
    [] k = <<"M">> -> <<"m","e","t","h","o","d">>

scope(heap, s) == SCOPE_MAP(heap[s].kind)

kind(heap, s) == KIND_MAP(heap[s].kind)

\* the loop of get_named_parent, cur being the local variable
RECURSIVE named_from(_, _)
named_from(heap, cur) ==
  IF cur = None THEN None
  ELSE IF heap[cur].name # NoText THEN cur
  ELSE named_from(heap, heap[cur].parent)

\* get_named_parent that looks at the parent only, not further up
get_named_parent_ParentOnly(heap, s) ==
  IF heap[s].parent # None /\ heap[heap[s].parent].name # NoText
  THEN heap[s].parent ELSE None

get_named_parent(heap, s) == named_from(heap, heap[s].parent)

\* the loop of qualified_name: name_parts, innermost first
RECURSIVE name_parts(_, _)
name_parts(heap, cur) ==
  IF cur = None THEN <<>>
  ELSE IF heap[cur].name # NoText
       THEN <<heap[cur].name>> \o name_parts(heap, heap[cur].parent)
  ELSE name_parts(heap, heap[cur].parent)

\* reversed(seq)
reversed(q) == [i \in 1..Len(q) |-> q[Len(q) + 1 - i]]

\* sep.join(parts)
RECURSIVE join(_, _)
join(sep, parts) ==
  IF parts = <<>> THEN <<>>
  ELSE IF Len(parts) = 1 THEN parts[1]
  ELSE parts[1] \o sep \o join(sep, Tail(parts))

\* qualified_name without reversed(): innermost first
qualified_name_Unreversed(heap, s) == join(<<",">>, name_parts(heap, s))

qualified_name(heap, s) == join(<<",">>, reversed(name_parts(heap, s)))

\* str(n) of a natural number
RECURSIVE Decimal(_)
Decimal(n) ==
  IF n < 10 THEN <<Ascii[17 + n]>>
  ELSE Decimal(n \div 10) \o <<Ascii[17 + (n % 10)]>>

to_tags_line(heap, s) ==
  LET res == heap[s].name \o <<"\t">> \o heap[s].filename
               \o <<"\t", "/", "^">> \o heap[s].line
               \o <<"$", "/", ";", "\"", "\t">> \o kind(heap, s)
               \o <<"\t", "l", "i", "n", "e", ":">> \o Decimal(heap[s].lineno)
      parent == get_named_parent(heap, s)
  IN IF parent # None
     THEN res \o <<"\t">> \o scope(heap, parent) \o <<":">>
              \o qualified_name(heap, parent)
     ELSE res

(***************************************************************************)
(* SimpleOzParser._lex: the lexer coroutine.  Its state is the buffer and  *)
(* the yield it is suspended at:                                           *)
(*   "feed"    at  current_buffer += yield                                 *)
(*   "token"   at  yield (token_type, token_content), match_length chars   *)
(*             of the buffer still to be dropped                           *)
(*   "nomatch" at  the bare yield of the for loop's else branch            *)
(* A yielded token is << token_type, token_content >>; << >> is None.      *)
(***************************************************************************)
Lexer(buf, at, n) == [current_buffer |-> buf, at |-> at, match_length |-> n]

\* the inner loop, run until the next yield
RECURSIVE lex_consume(_)
lex_consume(b) ==
  IF b = <<>> THEN [lexer |-> Lexer(b, "feed", 0), res |-> <<>>]
  ELSE LET ps == LEXER_PATTERNS(b)
           i == FirstMatch(ps, 1)
       IN IF i = 0 THEN [lexer |-> Lexer(b, "nomatch", 0), res |-> <<>>]
          ELSE IF ps[i][2] # IGNORE
               THEN [lexer |-> Lexer(b, "token", ps[i][1]),
                     res |-> <<ps[i][2], SubSeq(b, 1, ps[i][1])>>]
          ELSE lex_consume(SubSeq(b, ps[i][1] + 1, Len(b)))

\* lex_send that resumes after a token without cutting the match off the
\* buffer
lex_send_KeepMatch(lx, value) ==
  CASE lx.at = "feed" -> lex_consume(lx.current_buffer \o value)
    [] lx.at = "token" -> lex_consume(lx.current_buffer)
    [] lx.at = "nomatch" ->
         [lexer |-> Lexer(lx.current_buffer, "feed", 0), res |-> <<>>]

\* self._lexer.send(value): resume the coroutine until its next yield
lex_send(lx, value) ==
  CASE lx.at = "feed" -> lex_consume(lx.current_buffer \o value)
    [] lx.at = "token" ->
         lex_consume(SubSeq(lx.current_buffer, lx.match_length + 1,
                            Len(lx.current_buffer)))
    [] lx.at = "nomatch" ->
         \* the value sent to the bare yield is dropped; break; the outer
         \* loop yields None at current_buffer += yield
         [lexer |-> Lexer(lx.current_buffer, "feed", 0), res |-> <<>>]

(***************************************************************************)
(* SimpleOzParser._parse: the parser coroutine.                            *)
(***************************************************************************)
ST_INIT == "ST_INIT"
ST_PROC_1 == "ST_PROC_1"
ST_PROC_2 == "ST_PROC_2"
ST_CLASS_1 == "ST_CLASS_1"
ST_METH_1 == "ST_METH_1"
CS_PROC == "f"
CS_CLASS == "c"
CS_PUB_METH == "m"
CS_PRIV_METH == "M"
CS_SCOPE == "s"
CS_END == "e"

\* PARSER_TRANS_TABLE whose ST_PROC_2 takes an atom for the name
PARSER_TRANS_TABLE_AtomAfterBrace ==
  (ST_INIT :> (PROC :> ST_PROC_1 @@ CLASS :> ST_CLASS_1
                 @@ METH :> ST_METH_1 @@ END :> CS_END @@ SCOPE :> CS_SCOPE))
  @@ (ST_PROC_1 :> (ATOM :> ST_PROC_1 @@ BRACE :> ST_PROC_2))
  @@ (ST_PROC_2 :> (DOLLAR :> CS_SCOPE @@ ATOM :> CS_PROC))
  @@ (ST_CLASS_1 :> (VAR :> CS_CLASS))
  @@ (ST_METH_1 :> (EXCL :> ST_METH_1 @@ ATOM :> CS_PUB_METH @@ VAR :> CS_PRIV_METH))

\* PARSER_TRANS_TABLE whose ST_METH_1 gives the two method kinds swapped
PARSER_TRANS_TABLE_MethodsSwapped ==
  (ST_INIT :> (PROC :> ST_PROC_1 @@ CLASS :> ST_CLASS_1
                 @@ METH :> ST_METH_1 @@ END :> CS_END @@ SCOPE :> CS_SCOPE))
  @@ (ST_PROC_1 :> (ATOM :> ST_PROC_1 @@ BRACE :> ST_PROC_2))
  @@ (ST_PROC_2 :> (DOLLAR :> CS_SCOPE @@ VAR :> CS_PROC))
  @@ (ST_CLASS_1 :> (VAR :> CS_CLASS))
  @@ (ST_METH_1 :> (EXCL :> ST_METH_1 @@ ATOM :> CS_PRIV_METH @@ VAR :> CS_PUB_METH))

\* PARSER_TRANS_TABLE with the closing keyword a transition of every state
PARSER_TRANS_TABLE_EndEverywhere ==
  (ST_INIT :> (PROC :> ST_PROC_1 @@ CLASS :> ST_CLASS_1 @@ METH :> ST_METH_1
               @@ END :> CS_END @@ SCOPE :> CS_SCOPE))
  @@ (ST_PROC_1 :> (ATOM :> ST_PROC_1 @@ BRACE :> ST_PROC_2 @@ END :> CS_END))
  @@ (ST_PROC_2 :> (DOLLAR :> CS_SCOPE @@ VAR :> CS_PROC @@ END :> CS_END))
  @@ (ST_CLASS_1 :> (VAR :> CS_CLASS @@ END :> CS_END))
  @@ (ST_METH_1 :> (EXCL :> ST_METH_1 @@ ATOM :> CS_PUB_METH
                    @@ VAR :> CS_PRIV_METH @@ END :> CS_END))

PARSER_TRANS_TABLE ==
  (ST_INIT :> (PROC :> ST_PROC_1 @@ CLASS :> ST_CLASS_1 @@ METH :> ST_METH_1
               @@ END :> CS_END @@ SCOPE :> CS_SCOPE))
  @@ (ST_PROC_1 :> (ATOM :> ST_PROC_1 @@ BRACE :> ST_PROC_2))
  @@ (ST_PROC_2 :> (DOLLAR :> CS_SCOPE @@ VAR :> CS_PROC))
  @@ (ST_CLASS_1 :> (VAR :> CS_CLASS))
  @@ (ST_METH_1 :> (EXCL :> ST_METH_1 @@ ATOM :> CS_PUB_METH
                    @@ VAR :> CS_PRIV_METH))

\* get whose default is the state after a procedure keyword
get_DefaultProc(trans_table, token_type) ==
  IF token_type \in DOMAIN trans_table THEN trans_table[token_type]
  ELSE ST_PROC_1

\* trans_table.get(token_type, cls.ST_INIT)
get(trans_table, token_type) ==
  IF token_type \in DOMAIN trans_table THEN trans_table[token_type]
  ELSE ST_INIT

\* the parser's locals, the Symbol objects it has created, and whether it
\* has raised (cur_scope.parent with cur_scope None: AttributeError)
Parser(heap, cur_scope, cur_symbol, cur_name, cur_state, raised) ==
  [heap |-> heap, cur_scope |-> cur_scope, cur_symbol |-> cur_symbol,
   cur_name |-> cur_name, cur_state |-> cur_state, raised |-> raised]

\* the state at the first yield
parse_start ==
  Parser(<<Symbol(NoText, NoText, NoText, NoText, -1, None)>>,
         1, None, NoText, ST_INIT, FALSE)

\* parse_send that names a Symbol after the identifier remembered before
\* the token that fires the emit
parse_send_RememberedName(p, token, line, lineno, filename) ==
  LET token_type == token[1]
      token_content == token[2]
      cur_name == IF token_type \in {ATOM, VAR} THEN token_content
                  ELSE p.cur_name
      cur_state == get(PARSER_TRANS_TABLE[p.cur_state], token_type)
      new == Len(p.heap) + 1
  IN IF cur_state \in {CS_PROC, CS_CLASS, CS_PUB_METH, CS_PRIV_METH}
     THEN Parser(Append(p.heap, Symbol(p.cur_name, filename, line,
                                       <<cur_state>>, lineno, p.cur_scope)),
                 new, new, cur_name, ST_INIT, FALSE)
     ELSE IF cur_state = CS_SCOPE
     THEN Parser(Append(p.heap, Symbol(NoText, NoText, NoText,
                                       token_content, -1, p.cur_scope)),
                 new, None, cur_name, ST_INIT, FALSE)
     ELSE IF cur_state = CS_END
     THEN IF p.cur_scope = None
          THEN Parser(p.heap, p.cur_scope, None, cur_name, cur_state, TRUE)
          ELSE Parser(p.heap, p.heap[p.cur_scope].parent, None, cur_name,
                      ST_INIT, FALSE)
     ELSE Parser(p.heap, p.cur_scope, None, cur_name, cur_state, FALSE)

\* parse_send whose CS_END leaves the current scope in place
parse_send_NoPop(p, token, line, lineno, filename) ==
  LET token_type == token[1]
      token_content == token[2]
      cur_name == IF token_type \in {ATOM, VAR} THEN token_content
                  ELSE p.cur_name
      cur_state == get(PARSER_TRANS_TABLE[p.cur_state], token_type)
      new == Len(p.heap) + 1
  IN IF cur_state \in {CS_PROC, CS_CLASS, CS_PUB_METH, CS_PRIV_METH}
     THEN Parser(Append(p.heap, Symbol(cur_name, filename, line,
                                       <<cur_state>>, lineno, p.cur_scope)),
                 new, new, cur_name, ST_INIT, FALSE)
     ELSE IF cur_state = CS_SCOPE
     THEN Parser(Append(p.heap, Symbol(NoText, NoText, NoText,
                                       token_content, -1, p.cur_scope)),
                 new, None, cur_name, ST_INIT, FALSE)
     ELSE IF cur_state = CS_END
     THEN Parser(p.heap, p.cur_scope, None, cur_name, ST_INIT, FALSE)
     ELSE Parser(p.heap, p.cur_scope, None, cur_name, cur_state, FALSE)

\* parse_send whose CS_SCOPE makes the nameless node and leaves the current
\* scope in place
parse_send_ScopeNotPushed(p, token, line, lineno, filename) ==
  LET token_type == token[1]
      token_content == token[2]
      cur_name == IF token_type \in {ATOM, VAR} THEN token_content
                  ELSE p.cur_name
      cur_state == get(PARSER_TRANS_TABLE[p.cur_state], token_type)
      new == Len(p.heap) + 1
  IN IF cur_state \in {CS_PROC, CS_CLASS, CS_PUB_METH, CS_PRIV_METH}
     THEN Parser(Append(p.heap, Symbol(cur_name, filename, line,
                                       <<cur_state>>, lineno, p.cur_scope)),
                 new, new, cur_name, ST_INIT, FALSE)
     ELSE IF cur_state = CS_SCOPE
     THEN Parser(Append(p.heap, Symbol(NoText, NoText, NoText,
                                       token_content, -1, p.cur_scope)),
                 p.cur_scope, None, cur_name, ST_INIT, FALSE)
     ELSE IF cur_state = CS_END
     THEN IF p.cur_scope = None
          THEN Parser(p.heap, p.cur_scope, None, cur_name, cur_state, TRUE)
          ELSE Parser(p.heap, p.heap[p.cur_scope].parent, None, cur_name,
                      ST_INIT, FALSE)
     ELSE Parser(p.heap, p.cur_scope, None, cur_name, cur_state, FALSE)

\* parse_send whose CS_SCOPE yields the nameless node as a Symbol
parse_send_EmitScope(p, token, line, lineno, filename) ==
  LET token_type == token[1]
      token_content == token[2]
      cur_name == IF token_type \in {ATOM, VAR} THEN token_content
                  ELSE p.cur_name
      cur_state == get(PARSER_TRANS_TABLE[p.cur_state], token_type)
      new == Len(p.heap) + 1
  IN IF cur_state \in {CS_PROC, CS_CLASS, CS_PUB_METH, CS_PRIV_METH}
     THEN Parser(Append(p.heap, Symbol(cur_name, filename, line,
                                       <<cur_state>>, lineno, p.cur_scope)),
                 new, new, cur_name, ST_INIT, FALSE)
     ELSE IF cur_state = CS_SCOPE
     THEN Parser(Append(p.heap, Symbol(NoText, NoText, NoText,
                                       token_content, -1, p.cur_scope)),
                 new, new, cur_name, ST_INIT, FALSE)
     ELSE IF cur_state = CS_END
     THEN IF p.cur_scope = None
          THEN Parser(p.heap, p.cur_scope, None, cur_name, cur_state, TRUE)
          ELSE Parser(p.heap, p.heap[p.cur_scope].parent, None, cur_name,
                      ST_INIT, FALSE)
     ELSE Parser(p.heap, p.cur_scope, None, cur_name, cur_state, FALSE)

\* self._parser.send((token, line, lineno, filename)): one turn of the loop
parse_send(p, token, line, lineno, filename) ==
  LET token_type == token[1]
      token_content == token[2]
      cur_name == IF token_type \in {ATOM, VAR} THEN token_content
                  ELSE p.cur_name
      cur_state == get(PARSER_TRANS_TABLE[p.cur_state], token_type)
      new == Len(p.heap) + 1
  IN IF cur_state \in {CS_PROC, CS_CLASS, CS_PUB_METH, CS_PRIV_METH}
     THEN Parser(Append(p.heap, Symbol(cur_name, filename, line,
                                       <<cur_state>>, lineno, p.cur_scope)),
                 new, new, cur_name, ST_INIT, FALSE)
     ELSE IF cur_state = CS_SCOPE
     THEN Parser(Append(p.heap, Symbol(NoText, NoText, NoText,
                                       token_content, -1, p.cur_scope)),
                 new, None, cur_name, ST_INIT, FALSE)
     ELSE IF cur_state = CS_END
     THEN IF p.cur_scope = None
          THEN Parser(p.heap, p.cur_scope, None, cur_name, cur_state, TRUE)
          ELSE Parser(p.heap, p.heap[p.cur_scope].parent, None, cur_name,
                      ST_INIT, FALSE)
     ELSE Parser(p.heap, p.cur_scope, None, cur_name, cur_state, FALSE)

(***************************************************************************)
(* all_symbols.sort(key=operator.attrgetter('name'))                       *)
(***************************************************************************)
\* a < b for two str: by code point, a proper prefix first
RECURSIVE str_less(_, _)
str_less(a, b) ==
  IF b = <<>> THEN FALSE
  ELSE IF a = <<>> THEN TRUE
  ELSE IF Ord(a[1]) # Ord(b[1]) THEN Ord(a[1]) < Ord(b[1])
  ELSE str_less(Tail(a), Tail(b))

\* insert_by_name that puts x before the elements of equal key
RECURSIVE insert_by_name_BeforeEqual(_, _, _)
insert_by_name_BeforeEqual(heap, sorted, x) ==
  IF sorted = <<>> THEN <<x>>
  ELSE IF ~str_less(heap[Head(sorted)].name, heap[x].name)
       THEN <<x>> \o sorted
  ELSE <<Head(sorted)>> \o insert_by_name_BeforeEqual(heap, Tail(sorted), x)

\* the place of x in a sorted list: before the first element whose key is
\* greater than the key of x (equal keys keep their order)
RECURSIVE insert_by_name(_, _, _)
insert_by_name(heap, sorted, x) ==
  IF sorted = <<>> THEN <<x>>
  ELSE IF str_less(heap[x].name, heap[Head(sorted)].name)
       THEN <<x>> \o sorted
  ELSE <<Head(sorted)>> \o insert_by_name(heap, Tail(sorted), x)

RECURSIVE sort_by_name(_, _)
sort_by_name(heap, syms) ==
  IF syms = <<>> THEN <<>>
  ELSE insert_by_name(heap, sort_by_name(heap, SubSeq(syms, 1, Len(syms) - 1)),
                      syms[Len(syms)])

(***************************************************************************)
(* The input: the lines that fileinput.input() may supply.                 *)
(***************************************************************************)
\* the number of lines of a run
MaxLines == 3

ProcLowerLine ==
  <<"p","r","o","c"," ","{","f","o","o"," ","X","}"," ",".",".","."," ",
    "e","n","d">>

ProcLine ==
  <<"p","r","o","c"," ","{","F","o","o"," ","X","}"," ",".",".","."," ",
    "e","n","d">>

CounterLine ==
  <<"c","l","a","s","s"," ","C","o","u","n","t","e","r"," ",
    "m","e","t","h"," ","i","n","i","t"," ","x"," ","e","n","d"," ",
    "m","e","t","h"," ","i","n","c"," ","!"," ","y"," ","e","n","d"," ",
    "e","n","d">>

LocalLine ==
  <<"l","o","c","a","l"," ","X"," ","i","n"," ","f","u","n"," ",
    "{","B","a","r"," ","Y","}"," ","Y"," ","e","n","d"," ","e","n","d">>

EndLine == <<"e","n","d">>

QuoteHeadLine == <<"'","a">>

QuoteTailLine == <<"b","'">>

NestLine ==
  <<"c","l","a","s","s"," ","A"," ","i","f"," ","f","u","n"," ",
    "{","F"," ","X","}"," ","m","e","t","h"," ","!","P","r","i","v">>

\* fun lazy
OpenLine == <<"f","u","n"," ","l","a","z","y">>

\* {Foo X} fun {$ Y} Y end end
BraceLine ==
  <<"{","F","o","o"," ","X","}"," ","f","u","n"," ","{","$"," ","Y","}"," ","Y"," ","e","n","d"," ","e","n","d">>

\* class end fun end fun { end meth end
StrayEndLine ==
  <<"c","l","a","s","s"," ","e","n","d"," ","f","u","n"," ","e","n","d"," ","f","u","n"," ","{"," ","e","n","d"," ","m","e","t","h"," ","e","n","d">>

\* "s"
StringLine == <<"\"","s","\"">>

SourceLines ==
  {ProcLowerLine, ProcLine, CounterLine, LocalLine, EndLine, QuoteHeadLine,
   QuoteTailLine, NestLine, OpenLine, BraceLine, StrayEndLine, StringLine}

\* the lines that a run over several files may supply
FileLines == {NestLine, ProcLine, QuoteHeadLine, OpenLine, BraceLine}

\* the number of files of a run
MaxFiles == 2

(***************************************************************************)
(* The program: the module-level loop over the lines, the feed generator   *)
(* it drives, and the final sort and print.                                *)
(*   pc = "main"    between two lines of the for loop                      *)
(*   pc = "feed"    inside feed, a token has been handled                  *)
(*   pc = "raised"  an exception has left the program                      *)
(*   pc = "done"    the tags lines have been printed                       *)
(* feeds and tokens record the lines passed to feed and the tokens passed  *)
(* to the parser, token_linenos the lineno each token was passed with.     *)
(* file is the place of the current file among the files of fileinput.    *)
(***************************************************************************)
VARIABLES lexer, parser, all_symbols, line, lineno, pc, output, feeds, tokens,
          token_linenos, file

vars ==
  <<lexer, parser, all_symbols, line, lineno, pc, output, feeds, tokens,
    token_linenos, file>>

\* fileinput.filename(): a.oz, b.oz, ...
filename == <<Ascii[65 + file], ".", "o", "z">>

Init ==
  /\ lexer = Lexer(<<>>, "feed", 0)
  /\ parser = parse_start
  /\ all_symbols = <<>>
  /\ line = NoText
  /\ lineno = 0
  /\ pc = "main"
  /\ output = <<>>
  /\ feeds = <<>>
  /\ tokens = <<>>
  /\ token_linenos = <<>>
  /\ file = 1

\* one turn of the while loop of feed, the_input being the value sent:
\* the lexer is resumed and, when it yields a token, the parser is sent it
feed_turn(lx, p, the_input, ln, no) ==
  LET r == lex_send(lx, the_input)
  IN [lexer |-> r.lexer,
      parser |-> IF r.res # <<>>
                 THEN parse_send(p, r.res, ln, no, filename) ELSE p,
      res |-> r.res]

FeedTurn(the_input, ln, no) ==
  LET t == feed_turn(lexer, parser, the_input, ln, no)
  IN /\ lexer' = t.lexer
     /\ parser' = t.parser
     /\ IF t.res # <<>>
        THEN /\ tokens' = Append(tokens, t.res)
             /\ token_linenos' = Append(token_linenos, no)
             /\ all_symbols' =
                  IF ~t.parser.raised /\ t.parser.cur_symbol # None
                  THEN Append(all_symbols, t.parser.cur_symbol)
                  ELSE all_symbols
             /\ pc' = IF t.parser.raised THEN "raised" ELSE "feed"
        ELSE /\ pc' = "main"
             /\ UNCHANGED <<tokens, token_linenos, all_symbols>>

\* the for loop takes the next line and feed sends it to the lexer
FeedLine(l) ==
  /\ pc = "main"
  /\ lineno < MaxLines
  /\ line' = l
  /\ lineno' = lineno + 1
  /\ feeds' = Append(feeds, l)
  /\ FeedTurn(l, l, lineno + 1)
  /\ UNCHANGED <<output, file>>

\* feed resumes the lexer after a token
FeedNext ==
  /\ pc = "feed"
  /\ FeedTurn(NoText, line, lineno)
  /\ UNCHANGED <<line, lineno, feeds, output, file>>

\* the input is exhausted: sort and print
WriteTags ==
  /\ pc = "main"
  /\ all_symbols' = sort_by_name(parser.heap, all_symbols)
  /\ output' = [i \in 1..Len(all_symbols) |->
                  to_tags_line(parser.heap, all_symbols'[i])]
  /\ pc' = "done"
  /\ UNCHANGED <<lexer, parser, line, lineno, feeds, tokens, token_linenos,
                 file>>

\* fileinput goes on to the next file: the same lexer and parser, and
\* fileinput.lineno() counts on
NextFile ==
  /\ pc = "main"
  /\ file < MaxFiles
  /\ file' = file + 1
  /\ UNCHANGED <<lexer, parser, all_symbols, line, lineno, pc, output, feeds,
                 tokens, token_linenos>>

Next ==
  \/ \E l \in SourceLines : FeedLine(l)
  \/ FeedNext
  \/ WriteTags

Spec == Init /\ [][Next]_vars

\* the runs over several files
FilesNext ==
  \/ \E l \in FileLines : FeedLine(l)
  \/ FeedNext
  \/ WriteTags
  \/ NextFile

FilesSpec == Init /\ [][FilesNext]_vars

(***************************************************************************)
(* The same program as a function of its input: the result of running the  *)
(* for loop over the lines ls on a new SimpleOzParser.                     *)
(***************************************************************************)
Run(lx, p, syms, toks, n) ==
  [lexer |-> lx, parser |-> p, all_symbols |-> syms, tokens |-> toks,
   lineno |-> n]

run_start == Run(Lexer(<<>>, "feed", 0), parse_start, <<>>, <<>>, 0)

\* all the turns of feed(ln, no, filename), consumed by all_symbols.extend
RECURSIVE feed(_, _, _, _)
feed(r, the_input, ln, no) ==
  LET t == feed_turn(r.lexer, r.parser, the_input, ln, no)
  IN IF t.res = <<>>
     THEN Run(t.lexer, t.parser, r.all_symbols, r.tokens, no)
     ELSE IF t.parser.raised
     THEN Run(t.lexer, t.parser, r.all_symbols, Append(r.tokens, t.res), no)
     ELSE feed(Run(t.lexer, t.parser,
                   IF t.parser.cur_symbol # None
                   THEN Append(r.all_symbols, t.parser.cur_symbol)
                   ELSE r.all_symbols,
                   Append(r.tokens, t.res), no),
               NoText, ln, no)

RECURSIVE run_lines(_, _)
run_lines(r, ls) ==
  IF ls = <<>> \/ r.parser.raised THEN r
  ELSE run_lines(feed(r, Head(ls), Head(ls), r.lineno + 1), Tail(ls))

\* the lines printed for a run that has not raised
tags_of(r) ==
  LET sorted == sort_by_name(r.parser.heap, r.all_symbols)
  IN [i \in 1..Len(sorted) |-> to_tags_line(r.parser.heap, sorted[i])]

(***************************************************************************)
(* Vocabulary of the properties.                                           *)
(***************************************************************************)
\* the root sentinel: the Symbol made before the parser's loop
Root == 1

\* the parent chain of s, outermost first, s last
RECURSIVE ChainOf(_, _)
ChainOf(heap, s) ==
  IF s = None THEN <<>> ELSE ChainOf(heap, heap[s].parent) \o <<s>>

\* the bottom of the scope stack whose top is s (None for an empty stack)
ScopeBottom(heap, s) == IF s = None THEN None ELSE ChainOf(heap, s)[1]

\* the proper ancestors of s that have a name
NamedAncestors(heap, s) ==
  LET c == ChainOf(heap, s)
  IN {a \in {c[i] : i \in 1..(Len(c) - 1)} : heap[a].name # NoText}

\* the named ancestor of s below which every other named ancestor lies
NearestNamed(heap, s) ==
  LET na == NamedAncestors(heap, s)
  IN CHOOSE a \in na : \A o \in na \ {a} : o \in NamedAncestors(heap, a)

\* the names on the chain of s, outermost first, joined by commas
RECURSIVE CommaNames(_, _, _)
CommaNames(heap, chain, acc) ==
  IF chain = <<>> THEN acc
  ELSE IF heap[Head(chain)].name = NoText
       THEN CommaNames(heap, Tail(chain), acc)
  ELSE CommaNames(heap, Tail(chain),
                  IF acc = <<>> THEN heap[Head(chain)].name
                  ELSE acc \o <<",">> \o heap[Head(chain)].name)

\* the tab-separated fields of a text
Fields(text) ==
  LET tabs == {i \in 1..Len(text) : text[i] = "\t"}
      \* the place of the k-th tab; 0 and Len(text) + 1 bound the text
      tab(k) == IF k = 0 THEN 0
                ELSE IF k > Cardinality(tabs) THEN Len(text) + 1
                ELSE CHOOSE p \in tabs :
                       Cardinality({q \in tabs : q < p}) = k - 1
  IN [k \in 1..(Cardinality(tabs) + 1) |->
        SubSeq(text, tab(k - 1) + 1, tab(k) - 1)]

\* the fields of the tags line of s
TagFields(s) == Fields(to_tags_line(parser.heap, s))

\* the field line:<lineno> of s
LineField(s) == <<"l","i","n","e",":">> \o Decimal(parser.heap[s].lineno)

\* the number of fields of f up to the field line:<lineno>
LineFieldAt(f, lf) == CHOOSE i \in 1..Len(f) : f[i] = lf

\* the tags line of s ends with line:<lineno>: it has no scope field
NoScopeField(s) ==
  LET f == TagFields(s) IN f[Len(f)] = LineField(s)

\* a symbol as the reader of the tags file sees it, provenance apart
SymView(heap, s) == <<heap[s].name, heap[s].kind, qualified_name(heap, s)>>

SymViews(heap, syms) == [i \in 1..Len(syms) |-> SymView(heap, syms[i])]

\* a whole run over exactly these lines has ended without an exception
Fed(ls) == feeds = ls /\ pc = "main"

(***************************************************************************)
(* C1: whatever the tokens, also with any number of unmatched end tokens   *)
(* received at the root, the parser raises no error.                       *)
(* Refuted by the code: after one end at the root cur_scope is None, and   *)
(* the next end at the root evaluates None.parent.                         *)
(***************************************************************************)
C1_NoErrorOnUnmatchedEnd == ~parser.raised /\ pc # "raised"

(***************************************************************************)
(* C2: pop-scope at the root leaves the root sentinel the current scope;   *)
(* the root sentinel is the bottom of the scope stack in every reachable   *)
(* state.                                                                  *)
(* Refuted by the code: end at the root sets cur_scope to the root's       *)
(* parent, None.                                                           *)
(***************************************************************************)
C2_RootIsBottomOfScopeStack ==
  ScopeBottom(parser.heap, parser.cur_scope) = Root

(***************************************************************************)
(* C3: a line fed as two consecutive pieces, split anywhere but inside a   *)
(* multi-character escape sequence, yields the same tokens and the same    *)
(* Symbols as the line fed whole.                                          *)
(* Refuted by the code: the piece fed to a suspended lexer is dropped, and *)
(* a piece is tokenized to its end before the next one arrives.            *)
(***************************************************************************)
\* the piece ends inside \. or &\xHH
SplitInEscape(piece) ==
  \E n \in 1..4 :
    /\ n <= Len(piece)
    /\ LET tl == SubSeq(piece, Len(piece) - n + 1, Len(piece))
       IN \/ tl = <<"\\">>
          \/ tl = <<"&">>
          \/ tl = <<"&", "\\">>
          \/ n = 3 /\ tl[1] = "&" /\ tl[2] = "\\" /\ tl[3] \in {"x", "X"}
          \/ n = 4 /\ tl[1] = "&" /\ tl[2] = "\\" /\ tl[3] \in {"x", "X"}
                   /\ tl[4] \in HexDigit

C3_SplitFeedEquivalent ==
  (pc = "main" /\ Len(feeds) = 2 /\ ~SplitInEscape(feeds[1]))
    => LET whole == run_lines(run_start, <<feeds[1] \o feeds[2]>>)
       IN /\ ~whole.parser.raised
          /\ tokens = whole.tokens
          /\ SymViews(parser.heap, all_symbols)
               = SymViews(whole.parser.heap, whole.all_symbols)

(***************************************************************************)
(* C4 as stated: feeding  proc {foo X} ... end  to a fresh parser yields   *)
(* exactly one Symbol, named foo, of kind procedure, without scope field.  *)
(* Refuted: after the brace only an uppercase identifier (VAR) is a        *)
(* transition of ST_PROC_2; the atom foo resets the parser to ST_INIT and  *)
(* no Symbol is made.                                                      *)
(***************************************************************************)
C4_ProcLowerYieldsFoo ==
  Fed(<<ProcLowerLine>>)
    => /\ Len(all_symbols) = 1
       /\ parser.heap[all_symbols[1]].name = <<"f","o","o">>
       /\ parser.heap[all_symbols[1]].kind = <<CS_PROC>>
       /\ NoScopeField(all_symbols[1])

(***************************************************************************)
(* C4 amended: feeding  proc {Foo X} ... end  to a fresh parser yields     *)
(* exactly one Symbol, named Foo, of kind procedure, whose output line has *)
(* no scope field.                                                         *)
(***************************************************************************)
C4_ProcYieldsFoo ==
  Fed(<<ProcLine>>)
    => /\ Len(all_symbols) = 1
       /\ parser.heap[all_symbols[1]].name = <<"F","o","o">>
       /\ parser.heap[all_symbols[1]].kind = <<CS_PROC>>
       /\ TagFields(all_symbols[1])[4] = <<"f">>
       /\ NoScopeField(all_symbols[1])

C4_Witness == Fed(<<ProcLine>>) /\ Len(all_symbols) = 1

(***************************************************************************)
(* C5 as stated: the line                                                  *)
(*   class Counter meth init x end meth inc ! y end end                    *)
(* yields the class Counter and, nested under it, the public method init   *)
(* and the private method inc, qualified Counter,init and Counter,inc.     *)
(* Refuted: the marker follows the name inc, so inc is emitted by the atom *)
(* transition of ST_METH_1, as a public method.                            *)
(***************************************************************************)
\* the three Symbols of the Counter line, inc being of kind incKind
CounterSymbols(incKind) ==
  /\ Len(all_symbols) = 3
  /\ LET c == all_symbols[1]
         i == all_symbols[2]
         n == all_symbols[3]
         h == parser.heap
     IN /\ h[c].name = <<"C","o","u","n","t","e","r">>
        /\ h[c].kind = <<CS_CLASS>>
        /\ h[i].name = <<"i","n","i","t">>
        /\ h[i].kind = <<CS_PUB_METH>>
        /\ h[n].name = <<"i","n","c">>
        /\ h[n].kind = <<incKind>>
        /\ h[i].parent = c
        /\ h[n].parent = c
        /\ qualified_name(h, i)
             = <<"C","o","u","n","t","e","r",",","i","n","i","t">>
        /\ qualified_name(h, n)
             = <<"C","o","u","n","t","e","r",",","i","n","c">>

C5_CounterIncPrivate == Fed(<<CounterLine>>) => CounterSymbols(CS_PRIV_METH)

(***************************************************************************)
(* C5 amended: the line yields the class Counter and, nested under it, the *)
(* two methods init and inc, both of kind public-method (the marker after  *)
(* the name inc does not make it private), qualified Counter,init and      *)
(* Counter,inc.                                                            *)
(***************************************************************************)
C5_CounterIncPublic == Fed(<<CounterLine>>) => CounterSymbols(CS_PUB_METH)

C5_Witness ==
  /\ Fed(<<CounterLine>>)
  /\ Len(all_symbols) = 3
  /\ Len(tokens) = 12

(***************************************************************************)
(* C6: feeding  local X in fun {Bar Y} Y end end  to a fresh parser yields *)
(* exactly one Symbol, named Bar, of kind procedure; the local scope       *)
(* yields no Symbol, the output line of Bar has no scope field, and after  *)
(* the two end tokens the current scope is the root again.                 *)
(***************************************************************************)
C6_LocalFunYieldsBar ==
  Fed(<<LocalLine>>)
    => /\ Len(all_symbols) = 1
       /\ LET b == all_symbols[1]
              h == parser.heap
          IN /\ h[b].name = <<"B","a","r">>
             /\ h[b].kind = <<CS_PROC>>
             /\ TagFields(b)[4] = <<"f">>
             \* the local scope: a nameless node, the parent of Bar
             /\ h[b].parent # Root
             /\ h[h[b].parent].name = NoText
             /\ h[h[b].parent].parent = Root
             /\ NoScopeField(b)
       /\ parser.cur_scope = Root

C6_Witness ==
  /\ Fed(<<LocalLine>>)
  /\ Len(all_symbols) = 1
  /\ Len(parser.heap) = 3

(***************************************************************************)
(* C7: the qualified name of every emitted Symbol is the comma-joined      *)
(* names of itself and its named ancestors, outermost first, the nameless  *)
(* scopes of the parent chain being skipped.                               *)
(***************************************************************************)
C7_QualifiedName ==
  \A i \in 1..Len(all_symbols) :
    qualified_name(parser.heap, all_symbols[i])
      = CommaNames(parser.heap, ChainOf(parser.heap, all_symbols[i]), <<>>)

\* a Symbol with two named ancestors and a nameless scope between them
C7_Witness ==
  \E i \in 1..Len(all_symbols) :
    LET s == all_symbols[i]
        c == ChainOf(parser.heap, s)
    IN /\ Cardinality(NamedAncestors(parser.heap, s)) = 2
       /\ \E j \in 2..(Len(c) - 1) : parser.heap[c[j]].name = NoText
       /\ Len(qualified_name(parser.heap, s))
            > Len(parser.heap[s].name) + 2

(***************************************************************************)
(* C8: the output line of a Symbol has the trailing scope field if and     *)
(* only if an ancestor in its parent chain has a name; the field is then   *)
(* procedure, class or method according to the kind of the nearest such    *)
(* ancestor (method for both method kinds), a colon, and the qualified     *)
(* name of that ancestor.                                                  *)
(***************************************************************************)
ScopeWord(k) ==
  CASE k = <<CS_PROC>> -> <<"p","r","o","c","e","d","u","r","e">>
    [] k = <<CS_CLASS>> -> <<"c","l","a","s","s">>
    [] k \in {<<CS_PUB_METH>>, <<CS_PRIV_METH>>} -> <<"m","e","t","h","o","d">>

C8_ScopeField ==
  \A i \in 1..Len(all_symbols) :
    LET s == all_symbols[i]
        h == parser.heap
        f == TagFields(s)
        n == LineFieldAt(f, LineField(s))
        a == NearestNamed(h, s)
    IN IF NamedAncestors(h, s) = {}
       THEN Len(f) = n
       ELSE /\ Len(f) = n + 1
            /\ f[Len(f)] = ScopeWord(h[a].kind) \o <<":">>
                             \o CommaNames(h, ChainOf(h, a), <<>>)

\* a Symbol whose parent is nameless and whose grandparent has a name, and
\* a Symbol under a method
C8_Witness ==
  /\ \E i \in 1..Len(all_symbols) :
       LET s == all_symbols[i]
       IN /\ parser.heap[s].parent # None
          /\ parser.heap[parser.heap[s].parent].name = NoText
          /\ NamedAncestors(parser.heap, s) # {}
  /\ \E i \in 1..Len(all_symbols) :
       NamedAncestors(parser.heap, all_symbols[i]) = {}
  /\ \E i \in 1..Len(all_symbols) :
       LET s == all_symbols[i]
       IN /\ NamedAncestors(parser.heap, s) # {}
          /\ parser.heap[NearestNamed(parser.heap, s)].kind
               \in {<<CS_PUB_METH>>, <<CS_PRIV_METH>>}

(***************************************************************************)
(* C9 as stated: the kind tag written for a Symbol is f for a procedure,   *)
(* c for a class, m<tab>access:public for a public method and              *)
(* M<tab>access:private for a private method.                              *)
(* Refuted: KIND_MAP gives a private method the tag m<tab>access:private.  *)
(***************************************************************************)
\* the fields of the tags line of s between the pattern and line:<lineno>
KindTagFields(s) ==
  LET f == TagFields(s)
  IN SubSeq(f, 4, LineFieldAt(f, LineField(s)) - 1)

\* the tag of each kind, as fields, the letter of a private method being p
KindTag(k, p) ==
  CASE k = <<CS_PROC>> -> << <<"f">> >>
    [] k = <<CS_CLASS>> -> << <<"c">> >>
    [] k = <<CS_PUB_METH>> ->
         << <<"m">>, <<"a","c","c","e","s","s",":","p","u","b","l","i","c">> >>
    [] k = <<CS_PRIV_METH>> ->
         << <<p>>, <<"a","c","c","e","s","s",":","p","r","i","v","a","t","e">> >>

SymbolKinds == {<<CS_PROC>>, <<CS_CLASS>>, <<CS_PUB_METH>>, <<CS_PRIV_METH>>}

C9_KindTagsAsStated ==
  \A i \in 1..Len(all_symbols) :
    KindTagFields(all_symbols[i])
      = KindTag(parser.heap[all_symbols[i]].kind, "M")

(***************************************************************************)
(* C9 amended: the kind tag written for a Symbol is f for a procedure, c   *)
(* for a class, m<tab>access:public for a public method and                *)
(* m<tab>access:private for a private method; the four kinds map to four   *)
(* distinct tags.                                                          *)
(***************************************************************************)
C9_KindTags ==
  /\ \A i \in 1..Len(all_symbols) :
       KindTagFields(all_symbols[i])
         = KindTag(parser.heap[all_symbols[i]].kind, "m")
  /\ \A i, j \in 1..Len(all_symbols) :
       parser.heap[all_symbols[i]].kind # parser.heap[all_symbols[j]].kind
         => KindTagFields(all_symbols[i]) # KindTagFields(all_symbols[j])

\* Symbols of all four kinds have been emitted
C9_Witness ==
  {parser.heap[all_symbols[i]].kind : i \in 1..Len(all_symbols)} = SymbolKinds

(***************************************************************************)
(* C10: the output has exactly one line per discovered Symbol, ordered     *)
(* non-decreasingly by name under ordinal comparison, Symbols of equal     *)
(* names keeping their discovery order.                                    *)
(***************************************************************************)
\* a <= b by code points: a is a prefix of b, or the first character that
\* differs is smaller in a
OrdinalLeq(a, b) ==
  \/ Len(a) <= Len(b) /\ SubSeq(b, 1, Len(a)) = a
  \/ \E k \in 1..Len(a) :
       /\ k <= Len(b)
       /\ SubSeq(a, 1, k - 1) = SubSeq(b, 1, k - 1)
       /\ Ord(a[k]) < Ord(b[k])

\* the Symbols discovered: the named Symbols the parser has made, in the
\* order of their making
Discovered == {s \in 1..Len(parser.heap) : parser.heap[s].name # NoText}

C10_SortedStableOutput ==
  pc = "done"
    => /\ Len(output) = Cardinality(Discovered)
       /\ {all_symbols[i] : i \in 1..Len(all_symbols)} = Discovered
       /\ \A i \in 1..Len(output) :
            output[i] = to_tags_line(parser.heap, all_symbols[i])
       /\ \A i, j \in 1..Len(output) :
            i < j =>
              LET a == Fields(output[i])[1]
                  b == Fields(output[j])[1]
              IN /\ OrdinalLeq(a, b)
                 /\ a = b => all_symbols[i] < all_symbols[j]

\* printed: two Symbols of one name, and a Symbol discovered after them
\* that is printed before them
C10_Witness ==
  /\ pc = "done"
  /\ \E i, j \in 1..Len(output) :
       /\ i < j
       /\ Fields(output[i])[1] = Fields(output[j])[1]
  /\ \E i, j \in 1..Len(output) :
       /\ i < j
       /\ all_symbols[i] > all_symbols[j]

(***************************************************************************)
(* Vocabulary of the properties about single steps.                        *)
(***************************************************************************)
\* this step passes a token to the parser
TokenStep == Len(tokens') = Len(tokens) + 1

\* the token this step passes to the parser
StepToken == tokens'[Len(tokens')]

\* this step adds a Symbol to all_symbols
EmitStep == Len(all_symbols') = Len(all_symbols) + 1

\* the Symbol this step adds
Emitted == all_symbols'[Len(all_symbols')]

\* the place among the tokens of the last fun, proc, class or meth keyword
\* before the n-th token
OpenerBefore(toks, n) ==
  LET js == {j \in 1..(n - 1) : toks[j][1] \in {PROC, CLASS, METH}}
  IN CHOOSE j \in js : \A k \in js : k <= j

(***************************************************************************)
(* C11 as stated: the source line text and number of every emitted Symbol  *)
(* are those of the line holding the opening proc/fun/class/meth keyword,  *)
(* also when the definition is spread over several fed lines.              *)
(* Refuted: the Symbol is made from the line and lineno passed with the    *)
(* token that completes the definition, the name.                          *)
(***************************************************************************)
C11_LineOfOpeningKeyword ==
  [][EmitStep =>
       LET open == token_linenos'[OpenerBefore(tokens', Len(tokens'))]
       IN /\ parser'.heap[Emitted].lineno = open
          /\ parser'.heap[Emitted].line = feeds'[open]]_vars

(***************************************************************************)
(* C11 amended: the source line text and number of every emitted Symbol    *)
(* are those of the feed call in which the token that completes the        *)
(* definition (the name token) is passed to the parser, which is a later   *)
(* line than that of the opening keyword when the definition is spread     *)
(* over several fed lines.                                                 *)
(***************************************************************************)
C11_LineOfNameToken ==
  [][EmitStep =>
       /\ parser'.heap[Emitted].lineno = Len(feeds')
       /\ parser'.heap[Emitted].line = feeds'[Len(feeds')]
       /\ parser'.heap[Emitted].name = StepToken[2]]_vars

\* fun lazy on line 1, {Foo X} on line 2: Foo carries line 2
C11_Witness ==
  /\ Len(feeds) = 2
  /\ feeds[1] = OpenLine
  /\ \E i \in 1..Len(all_symbols) :
       /\ parser.heap[all_symbols[i]].name = <<"F","o","o">>
       /\ parser.heap[all_symbols[i]].lineno = 2
       /\ parser.heap[all_symbols[i]].line = BraceLine

(***************************************************************************)
(* C12 as stated: every end token passed to the parser pops exactly one    *)
(* scope when the current scope is not the root, whatever the state the    *)
(* parser is in.                                                           *)
(* Refuted: end is a transition of ST_INIT only; in the four other states  *)
(* it resets the parser to ST_INIT and the scope stays.                    *)
(***************************************************************************)
\* this step passes an end token to a parser whose current scope is a
\* scope above the root
EndAboveRoot ==
  /\ TokenStep
  /\ StepToken[1] = END
  /\ parser.cur_scope \notin {None, Root}

C12_EndAlwaysPops ==
  [][EndAboveRoot
       => parser'.cur_scope = parser.heap[parser.cur_scope].parent]_vars

(***************************************************************************)
(* C12 amended: an end token passed to the parser while the current scope  *)
(* is not the root pops exactly one scope when the parser is in INIT; in   *)
(* the four other states it resets the parser to INIT, pops no scope and   *)
(* emits nothing.                                                          *)
(***************************************************************************)
C12_EndPopsInInit ==
  [][EndAboveRoot
       => IF parser.cur_state = ST_INIT
          THEN /\ parser'.cur_scope = parser.heap[parser.cur_scope].parent
               /\ parser'.heap = parser.heap
               /\ parser'.cur_state = ST_INIT
          ELSE /\ parser'.cur_scope = parser.cur_scope
               /\ parser'.heap = parser.heap
               /\ parser'.cur_state = ST_INIT
               /\ ~EmitStep]_vars

\* the four end tokens of the second line have each come in another state
\* than INIT, and the scope opened by the first line is still current
C12_Witness ==
  /\ Fed(<<NestLine, StrayEndLine>>)
  /\ Len(tokens) = 19
  /\ parser.cur_scope = Len(parser.heap)
  /\ parser.cur_scope # Root

(***************************************************************************)
(* C13 as stated: when an uppercase identifier arrives in the state        *)
(* awaiting-variable-after-brace, the emitted procedure Symbol is named    *)
(* after the last identifier-like token remembered before it, not after    *)
(* the uppercase token itself.                                             *)
(* Refuted: cur_name is overwritten by the uppercase token before the      *)
(* transition is taken, so the Symbol carries the uppercase token's text.  *)
(***************************************************************************)
\* this step emits a Symbol from the state ST_PROC_2
ProcEmitStep == EmitStep /\ parser.cur_state = ST_PROC_2

C13_NamedAfterRememberedToken ==
  [][ProcEmitStep
       => /\ parser'.heap[Emitted].name = parser.cur_name
          /\ parser'.heap[Emitted].name # StepToken[2]]_vars

(***************************************************************************)
(* C13 amended: when an uppercase identifier arrives in the state          *)
(* awaiting-variable-after-brace, the emitted procedure Symbol is named    *)
(* after that uppercase token itself; an identifier remembered before the  *)
(* brace is not used.                                                      *)
(***************************************************************************)
C13_NamedAfterUppercaseToken ==
  [][ProcEmitStep
       => /\ StepToken[1] = VAR
          /\ parser'.heap[Emitted].name = StepToken[2]
          /\ parser'.heap[Emitted].kind = <<CS_PROC>>
          /\ parser'.cur_name = StepToken[2]]_vars

\* lazy was remembered before the brace, and the Symbol is named Foo
C13_Witness ==
  \E n \in 1..(Len(tokens) - 2) :
    /\ tokens[n] = <<ATOM, <<"l","a","z","y">> >>
    /\ tokens[n + 1][1] = BRACE
    /\ tokens[n + 2] = <<VAR, <<"F","o","o">> >>
    /\ \E i \in 1..Len(all_symbols) :
         /\ parser.heap[all_symbols[i]].name = <<"F","o","o">>
         /\ parser.heap[all_symbols[i]].kind = <<CS_PROC>>
         /\ parser.heap[all_symbols[i]].lineno = token_linenos[n + 2]

(***************************************************************************)
(* C14: when the lexer has suspended because no pattern matches the        *)
(* buffer, the buffered text is kept and the text of the very next feed    *)
(* call is appended to it, the concatenation then being tokenized; no fed  *)
(* text is skipped.                                                        *)
(* Refuted by the code: the text sent to the bare yield of the for loop's  *)
(* else branch is dropped; only the feed call after that appends.          *)
(***************************************************************************)
\* this step is the first turn of a feed call
FeedCallStep == Len(feeds') = Len(feeds) + 1

C14_NextFeedAppended ==
  [][(FeedCallStep /\ lexer.at = "nomatch")
       => LET r == lex_consume(lexer.current_buffer \o feeds'[Len(feeds')])
          IN /\ lexer' = r.lexer
             /\ IF r.res # <<>> THEN TokenStep /\ StepToken = r.res
                ELSE ~TokenStep]_vars

(***************************************************************************)
(* C15: a suspended lexer is always recoverable: whenever no pattern       *)
(* matches the buffer, the buffer starts an unterminated comment, quote or *)
(* escape, and the text that closes it makes the lexer consume it; no      *)
(* buffer (a double-quoted string, a doubled !!) leaves the lexer          *)
(* suspended for all further input.                                        *)
(* Refuted by the code: no pattern starts with a double quote, nor with    *)
(* !!, so such a buffer matches nothing whatever is appended to it.        *)
(***************************************************************************)
\* no pattern matches the non-empty text b
Unmatched(b) == b # <<>> /\ FirstMatch(LEXER_PATTERNS(b), 1) = 0

\* b starts a quoted atom or variable, a block comment or a character
\* literal
StartsConstruct(b) ==
  \/ b[1] \in {"'", Backquote, "&"}
  \/ StartsWith(b, <<"/", "*">>)

\* texts that close a quote, a comment or an escape, also after a backslash
ClosingTexts ==
  {<<"'">>, <<Backquote>>, <<"*", "/">>, <<" ", "*", "/">>, <<"0">>,
   <<"0", "0">>, <<"0", "'">>, <<"0", Backquote>>, <<"\"">>}

C15_SuspensionRecoverable ==
  Unmatched(lexer.current_buffer)
    => /\ StartsConstruct(lexer.current_buffer)
       /\ \E c \in ClosingTexts : ~Unmatched(lexer.current_buffer \o c)

(***************************************************************************)
(* C16: in every parser state a token that is not among the state's        *)
(* transitions moves the parser to ST_INIT, emits no Symbol and neither    *)
(* pushes nor pops a scope; every terminal action leaves the parser in     *)
(* ST_INIT, so that the state in which the parser awaits a token is one of *)
(* the five ST_ states.                                                    *)
(***************************************************************************)
States == {ST_INIT, ST_PROC_1, ST_PROC_2, ST_CLASS_1, ST_METH_1}

TerminalActions ==
  {CS_PROC, CS_CLASS, CS_PUB_METH, CS_PRIV_METH, CS_SCOPE, CS_END}

\* the token of this step is no transition of the state that receives it
UnlistedStep ==
  TokenStep /\ StepToken[1] \notin DOMAIN PARSER_TRANS_TABLE[parser.cur_state]

\* the token of this step fires a terminal action
TerminalStep ==
  /\ TokenStep
  /\ StepToken[1] \in DOMAIN PARSER_TRANS_TABLE[parser.cur_state]
  /\ PARSER_TRANS_TABLE[parser.cur_state][StepToken[1]] \in TerminalActions

C16_UnlistedTokenResets ==
  [][/\ UnlistedStep
          => /\ parser'.cur_state = ST_INIT
             /\ parser'.cur_scope = parser.cur_scope
             /\ parser'.heap = parser.heap
             /\ all_symbols' = all_symbols
     /\ (TerminalStep /\ ~parser'.raised) => parser'.cur_state = ST_INIT
     /\ (TokenStep /\ ~parser'.raised) => parser'.cur_state \in States]_vars

\* proc {foo: the atom after the brace is no transition of ST_PROC_2
C16_Witness ==
  /\ Len(tokens) >= 3
  /\ tokens[Len(tokens) - 2][1] = PROC
  /\ tokens[Len(tokens) - 1][1] = BRACE
  /\ tokens[Len(tokens)][1] = ATOM
  /\ parser.cur_state = ST_INIT
  /\ all_symbols = <<>>

(***************************************************************************)
(* C17: an emit of a procedure, class or method creates a Symbol whose     *)
(* parent is the scope that was current before the token and makes it the  *)
(* current scope; a scope keyword in ST_INIT, or $ after the brace of a    *)
(* fun or proc, makes a new nameless node, parented to the scope that was  *)
(* current, the current scope and emits nothing; the end that follows      *)
(* makes the parent of the current scope, the scope that was current       *)
(* before the push, the current scope again.                               *)
(***************************************************************************)
\* the terminal action, or the state, that the token of this step leads to
StepAction == get(PARSER_TRANS_TABLE[parser.cur_state], StepToken[1])

\* the Symbol objects are never changed, and a step creates the last one
Created == Len(parser'.heap)

PushStep ==
  /\ Len(parser'.heap) = Len(parser.heap) + 1
  /\ SubSeq(parser'.heap, 1, Len(parser.heap)) = parser.heap
  /\ parser'.heap[Created].parent = parser.cur_scope
  /\ parser'.cur_scope = Created

C17_PushAndPop ==
  [][TokenStep
       => /\ StepAction \in {CS_PROC, CS_CLASS, CS_PUB_METH, CS_PRIV_METH}
               => /\ PushStep
                  /\ parser'.heap[Created].name # NoText
                  /\ EmitStep /\ Emitted = Created
          /\ StepAction = CS_SCOPE
               => /\ PushStep
                  /\ parser'.heap[Created].name = NoText
                  /\ all_symbols' = all_symbols
          /\ (StepAction = CS_END /\ parser.cur_scope # None)
               => /\ parser'.heap = parser.heap
                  /\ parser'.cur_scope = parser.heap[parser.cur_scope].parent
                  /\ all_symbols' = all_symbols
          /\ StepAction \notin TerminalActions
               => /\ parser'.heap = parser.heap
                  /\ parser'.cur_scope = parser.cur_scope]_vars

\* fun {$ Y} Y end inside a method: the nameless node of $ was pushed on the
\* method and the end has made the method the current scope again
C17_Witness ==
  /\ tokens # <<>>
  /\ tokens[Len(tokens)][1] = END
  /\ \E i \in 2..Len(parser.heap) :
       /\ parser.heap[i].name = NoText
       /\ parser.heap[i].kind = <<"$">>
       /\ parser.heap[i].parent # None
       /\ parser.heap[parser.heap[i].parent].name # NoText
       /\ parser.cur_scope = parser.heap[i].parent
       /\ \A j \in 1..Len(all_symbols) : all_symbols[j] # i

(***************************************************************************)
(* C18: every feed call terminates.  A match is at least one character     *)
(* long, so each token of a call leaves less of the buffer to consume than *)
(* the one before, and what is left is never negative: the resumed call    *)
(* can yield only finitely many tokens.  The call ends with the buffer     *)
(* empty or unmatched; each turn yields at most one token and each token   *)
(* at most one Symbol.                                                     *)
(***************************************************************************)
\* what the inner loop has yet to consume
Pending(lx) ==
  IF lx.at = "token" THEN Len(lx.current_buffer) - lx.match_length
  ELSE Len(lx.current_buffer)

C18_FeedTerminates ==
  [][/\ lexer'.at = "token"
          => lexer'.match_length \in 1..Len(lexer'.current_buffer)
     /\ Pending(lexer') >= 0
     /\ (pc = "feed" /\ TokenStep) => Pending(lexer') < Pending(lexer)
     /\ (pc = "main" /\ TokenStep)
          => Pending(lexer') < Len(lexer.current_buffer) + Len(line')
     /\ pc = "feed" => pc' \in {"feed", "main", "raised"}
     /\ (pc' = "main" /\ pc # "done")
          => /\ lexer'.at # "token"
             /\ \/ lexer'.current_buffer = <<>>
                \/ Unmatched(lexer'.current_buffer)
             /\ lexer'.at = "nomatch" => Unmatched(lexer'.current_buffer)
     /\ Len(tokens') <= Len(tokens) + 1
     /\ Len(all_symbols') <= Len(all_symbols) + 1
     /\ EmitStep => TokenStep]_vars

\* a feed call has yielded more than one token and has returned with the
\* buffer consumed
C18_Witness ==
  /\ pc = "main"
  /\ lineno = 1
  /\ Len(tokens) >= 4
  /\ lexer.current_buffer = <<>>

(***************************************************************************)
(* C19: every Symbol in all_symbols has a non-empty name that is the text  *)
(* of an ATOM or VAR token and a kind among procedure, class, public       *)
(* method and private method; the nameless scope nodes and the root are    *)
(* never in all_symbols; and each token yields at most one Symbol, so no   *)
(* Symbol is there twice and there are no more Symbols than tokens.        *)
(***************************************************************************)
NameTokens == {t \in {tokens[j] : j \in 1..Len(tokens)} : t[1] \in {ATOM, VAR}}

C19_OnlyNamedSymbolsCollected ==
  /\ \A i \in 1..Len(all_symbols) :
       LET s == all_symbols[i]
       IN /\ s \in 2..Len(parser.heap)
          /\ parser.heap[s].name # NoText
          /\ \E t \in NameTokens : t[2] = parser.heap[s].name
          /\ parser.heap[s].kind \in SymbolKinds
          /\ \A j \in 1..Len(all_symbols) : all_symbols[j] = s => j = i
  /\ \A s \in 1..Len(parser.heap) :
       (s = Root \/ parser.heap[s].name = NoText)
         => \A i \in 1..Len(all_symbols) : all_symbols[i] # s
  /\ Len(all_symbols)
       <= Cardinality({j \in 1..Len(tokens) : tokens[j][1] \in {ATOM, VAR}})

\* a class and a method have been collected and two nameless nodes, of a
\* scope keyword and of $, have been created and not collected
C19_Witness ==
  /\ Len(all_symbols) >= 2
  /\ \E s, t \in 2..Len(parser.heap) :
       /\ parser.heap[s].name = NoText /\ parser.heap[s].kind = <<"$">>
       /\ parser.heap[t].name = NoText /\ parser.heap[t].kind = <<"i", "f">>

(***************************************************************************)
(* C20: scope attribution does not cross file boundaries: every named      *)
(* ancestor of a Symbol in all_symbols was opened in the file of the       *)
(* Symbol, and when fileinput goes on to the next file the lexer's buffer  *)
(* is empty and the parser is in ST_INIT with the root as current scope,   *)
(* whatever the earlier files contain.                                     *)
(* Refuted by the code: the one SimpleOzParser lives through the whole     *)
(* loop, and a scope left open at the end of a file is the current scope   *)
(* at the first line of the next.                                          *)
(***************************************************************************)
C20_ScopesWithinFile ==
  [][/\ EmitStep
          => \A a \in NamedAncestors(parser'.heap, Emitted) :
               parser'.heap[a].filename = parser'.heap[Emitted].filename
     /\ file' # file
          => /\ lexer.current_buffer = <<>>
             /\ parser.cur_scope = Root
             /\ parser.cur_state = ST_INIT]_vars

====
